---------------------------- MODULE Spec2Model ----------------------------
(***************************************************************************)
(* A model of tcmalloc/stats.cc: PageAllocInfo (per-size-class allocation  *)
(* counters and the optional binary event trace) and PageAgeHistograms     *)
(* (saturating histograms of the idle age of free page ranges).            *)
(*                                                                         *)
(* Numbers.  TLC integers are 32-bit, so quantities that can exceed 2^31   *)
(* are kept in positional form at their true width:                        *)
(*   - a nanosecond timestamp is [ms, ns] with 0 <= ns < 10^6, standing    *)
(*     for ms * 10^6 + ns;                                                 *)
(*   - a page count given to the histograms, and a histogram counter, is   *)
(*     [hi, lo] with 0 <= lo < 2^16, standing for hi * 2^16 + lo;          *)
(*   - the trace sink is the sequence of bytes written to fd_, integers    *)
(*     in host order, taken to be little-endian.                           *)
(***************************************************************************)
EXTENDS Integers, Sequences, FiniteSets, Bags, TLC

(***************************************************************************)
(* Program constants (tcmalloc/common.h, default 8 KiB pages).             *)
(***************************************************************************)
kPageShift == 13
kMaxPages == 128
kPagesPerHugePage == 256
kAddressBits == 48
kNumLarge == kAddressBits - kPageShift

(***************************************************************************)
(* Bounds of the model.                                                    *)
(***************************************************************************)
MaxOps == 3
MaxRanges == 2
\* Size-class probes: every length up to MaxClassProbe, and the neighbours
\* of the powers of two up to 2^MaxProbeLog.
MaxClassProbe == 140
MaxProbeLog == 20
\* absl::base_internal::CycleClock::Frequency(), in ticks per second.
Frequency == 2

(***************************************************************************)
(* Inputs.                                                                 *)
(***************************************************************************)
PageIDs == {1, 4660}
SampleLengths == {128, 129, 257}
ReleaseArgs == {<<129, 64>>}
\* Time that passes before a TimeNanos() reading: 0.7 ms, 49.3 ms, and a gap
\* of more than 2^24 ms.
TimeSteps == {[ms |-> 0, ns |-> 700000], [ms |-> 49, ns |-> 300000],
              [ms |-> 16777221, ns |-> 0]}
kLogOff == -1
LogFds == {kLogOff, 3}

VARIABLES
  fd_,            \* PageAllocInfo::fd_
  small_,         \* PageAllocInfo::small_[kMaxPages]
  large_,         \* PageAllocInfo::large_[kAddressBits - kPageShift]
  total_small_,   \* PageAllocInfo::total_small_
  total_slack_,   \* PageAllocInfo::total_slack_
  largest_seen_,  \* PageAllocInfo::largest_seen_
  last_ms_,       \* PageAllocInfo::last_ms_
  sink,           \* the bytes written to fd_ so far
  writes,         \* history: what each signal_safe_write call returned
  aborted,        \* a CHECK_CONDITION has failed: the process is gone
  clock,          \* the latest TimeNanos() reading
  spans,          \* history: bag of <<p, n>> allocated and not yet freed
  calls,          \* history: the Record* calls made, in order
  query,          \* the latest counts_for(n) call and what it returned
  now_,           \* PageAgeHistograms::now_
  freq_,          \* PageAgeHistograms::freq_
  live_,          \* PageAgeHistograms::live_
  returned_,      \* PageAgeHistograms::returned_
  ranges          \* history: the RecordRange calls made, in order

infoVars == <<fd_, small_, large_, total_small_, total_slack_, largest_seen_,
              last_ms_, sink, writes, aborted, clock, spans, calls, query>>
agesVars == <<now_, freq_, live_, returned_, ranges>>
vars == <<infoVars, agesVars>>

(***************************************************************************)
(* Arithmetic helpers.                                                     *)
(***************************************************************************)
Pow2(k) == 2 ^ k

Max(a, b) == IF a >= b THEN a ELSE b

RECURSIVE BitAnd(_, _)
BitAnd(x, y) ==
  IF x = 0 \/ y = 0 THEN 0
  ELSE (x % 2) * (y % 2) + 2 * BitAnd(x \div 2, y \div 2)

\* x & ~m
AndNot(x, m) == x - BitAnd(x, m)

RECURSIVE Log2Floor(_)
Log2Floor(n) == IF n <= 1 THEN 0 ELSE 1 + Log2Floor(n \div 2)

\* tcmalloc_internal::Bits::Log2Ceiling
Log2Ceiling(n) ==
  IF BitAnd(n, n - 1) = 0 THEN Log2Floor(n) ELSE Log2Floor(n) + 1

\* The low `nbytes` bytes of v, least significant first.
RECURSIVE LittleEndian(_, _)
LittleEndian(v, nbytes) ==
  IF nbytes = 0 THEN <<>>
  ELSE <<v % 256>> \o LittleEndian(v \div 256, nbytes - 1)

RECURSIVE FromLittleEndian(_)
FromLittleEndian(bs) ==
  IF bs = <<>> THEN 0 ELSE Head(bs) + 256 * FromLittleEndian(Tail(bs))

(***************************************************************************)
(* Time.                                                                   *)
(***************************************************************************)
kNanosPerMilli == 1000000
TimeZero == [ms |-> 0, ns |-> 0]

TimeAdd(t, d) ==
  [ms |-> t.ms + d.ms + (t.ns + d.ns) \div kNanosPerMilli,
   ns |-> (t.ns + d.ns) % kNanosPerMilli]

\* Variant rounding to the nearest millisecond.
MillisOfNearest(when) == when.ms + (IF 2 * when.ns >= kNanosPerMilli THEN 1 ELSE 0)

\* when / 1000 / 1000
MillisOf(when) == when.ms

(***************************************************************************)
(* PageAllocInfo::Counts.                                                  *)
(***************************************************************************)
ZeroCounts == [nalloc |-> 0, nfree |-> 0, alloc_size |-> 0, free_size |-> 0]

CountsAlloc(c, n) == [c EXCEPT !.nalloc = @ + 1, !.alloc_size = @ + n]

CountsFree(c, n) == [c EXCEPT !.nfree = @ + 1, !.free_size = @ + n]

(***************************************************************************)
(* Size classes.  A slot is <<"small", i>> for small_[i] or <<"large", i>> *)
(* for large_[i].  RecordAlloc, RecordFree and counts_for each resolve the *)
(* slot with their own copy of the code.                                   *)
(***************************************************************************)
\* Variants with the boundary length kMaxPages taken as large.
AllocSlotStrict(n) ==
  IF n < kMaxPages THEN <<"small", n - 1>> ELSE <<"large", Log2Ceiling(n)>>

AllocSlot(n) ==
  IF n <= kMaxPages THEN <<"small", n - 1>> ELSE <<"large", Log2Ceiling(n)>>

FreeSlotStrict(n) ==
  IF n < kMaxPages THEN <<"small", n - 1>> ELSE <<"large", Log2Ceiling(n)>>

FreeSlot(n) ==
  IF n <= kMaxPages THEN <<"small", n - 1>> ELSE <<"large", Log2Ceiling(n)>>

CountsForSlotStrict(n) ==
  IF n < kMaxPages THEN <<"small", n - 1>> ELSE <<"large", Log2Ceiling(n)>>

CountsForSlot(n) ==
  IF n <= kMaxPages THEN <<"small", n - 1>> ELSE <<"large", Log2Ceiling(n)>>

SlotCounts(s) == IF s[1] = "small" THEN small_[s[2]] ELSE large_[s[2]]

counts_for(n) == SlotCounts(CountsForSlot(n))

AllSlots == ({"small"} \X (0 .. kMaxPages - 1)) \cup ({"large"} \X (0 .. kNumLarge - 1))

\* Variant without the alignment - 1 bias: rounds down.
RoundUpNoBias(value, alignment) == AndNot(value, alignment - 1)

RoundUp(value, alignment) == AndNot(value + alignment - 1, alignment - 1)

\* The slack RecordAlloc adds for n > kMaxPages.
AllocSlack(n) == RoundUp(n, kPagesPerHugePage) - n

\* The slack RecordFree subtracts for n > kMaxPages.
FreeSlack(n) == RoundUp(n, kPagesPerHugePage) - n

(***************************************************************************)
(* The trace.                                                              *)
(***************************************************************************)
kHeaderLen == 8
kEntryLen == 16
kFormatVersion == 1
kAllocEvent == 0
kFreeEvent == 1
kReleaseEvent == 2
\* The largest n whose byte size does not exceed kMaxRep.
kMaxRepPages == 536870911

log_on == fd_ >= 0

\* signal_safe_write(fd_, ptr, len): the number of bytes written, len on
\* success; -1 with nothing written, or a short count, on failure.
WriteResults(len) == {len, -1, len - 3}

Written(bytes, r) == SubSeq(bytes, 1, Max(r, 0))

DeltaMs(ms, last) == ms - last

ClampDelta(delta_ms) == IF delta_ms >= Pow2(24) THEN Pow2(24) - 1 ELSE delta_ms

\* Variant advancing the cursor by the stored delta.
NextLastMsClamped(ms, last, delta_ms) == last + delta_ms

\* The cursor after an event at millisecond ms was given delta delta_ms.
NextLastMs(ms, last, delta_ms) == ms

\* Variant with the event code in the high byte.
WhenWhatBytesSwapped(delta_ms, what) ==
  LittleEndian(delta_ms, 3) \o LittleEndian(what % 256, 1)

\* e.whenwhat = delta_ms << 8 | what, narrowed to 32 bits, as bytes.
WhenWhatBytes(delta_ms, what) ==
  LittleEndian(what % 256, 1) \o LittleEndian(delta_ms, 3)

\* e.kib as bytes.
KibBytes(n) ==
  IF n > kMaxRepPages THEN <<255, 255, 255, 255>>
  ELSE LittleEndian((n * Pow2(kPageShift)) \div 1024, 4)

EntryBytes(delta_ms, what, p, n) ==
  LittleEndian(p, 8) \o KibBytes(n) \o WhenWhatBytes(delta_ms, what)

HeaderBytes == LittleEndian(kFormatVersion, kHeaderLen)

\* Variant without the CHECK_CONDITION on the result of the write.
WriteUnchecked(when, what, p, n, r) ==
  LET ms == MillisOf(when)
      delta_ms == DeltaMs(ms, last_ms_)
      e == EntryBytes(ClampDelta(delta_ms), what, p, n)
  IN  /\ last_ms_' = NextLastMs(ms, last_ms_, ClampDelta(delta_ms))
      /\ sink' = sink \o Written(e, r)
      /\ writes' = Append(writes, r)
      /\ aborted' = FALSE

\* PageAllocInfo::Write, with r the result of signal_safe_write.
Write(when, what, p, n, r) ==
  LET ms == MillisOf(when)
      delta_ms == DeltaMs(ms, last_ms_)
      e == EntryBytes(ClampDelta(delta_ms), what, p, n)
  IN  /\ last_ms_' = NextLastMs(ms, last_ms_, ClampDelta(delta_ms))
      /\ sink' = sink \o Written(e, r)
      /\ writes' = Append(writes, r)
      /\ aborted' = (r # kEntryLen)

LogAlloc(when, p, n, r) == Write(when, kAllocEvent, p, n, r)
LogFree(when, p, n, r) == Write(when, kFreeEvent, p, n, r)
LogRelease(when, n, r) == Write(when, kReleaseEvent, 0, n, r)

NoLog == UNCHANGED <<last_ms_, sink, writes, aborted, clock>>

NoteCall(what, p, n) ==
  calls' = Append(calls, [what |-> what, p |-> p, n |-> n, t |-> clock'])

(***************************************************************************)
(* PageAllocInfo::PageAllocInfo                                            *)
(***************************************************************************)
NoQuery == [n |-> 0, slot |-> <<"none", 0>>, counts |-> ZeroCounts]

InitInfo ==
  /\ fd_ \in LogFds
  /\ small_ = [i \in 0 .. kMaxPages - 1 |-> ZeroCounts]
  /\ large_ = [i \in 0 .. kNumLarge - 1 |-> ZeroCounts]
  /\ total_small_ = 0
  /\ total_slack_ = 0
  /\ largest_seen_ = 0
  /\ last_ms_ = 0
  /\ clock = TimeZero
  /\ spans = EmptyBag
  /\ query = NoQuery
  /\ calls = <<>>
  /\ IF log_on
       THEN \E r \in WriteResults(kHeaderLen) :
              /\ sink = Written(HeaderBytes, r)
              /\ writes = <<r>>
              /\ aborted = (r # kHeaderLen)
       ELSE sink = <<>> /\ writes = <<>> /\ aborted = FALSE

(***************************************************************************)
(* PageAllocInfo::RecordAlloc                                              *)
(***************************************************************************)
AllocCounters(n) ==
  LET s == AllocSlot(n)
  IN  /\ largest_seen_' = Max(largest_seen_, n)
      /\ IF s[1] = "small"
           THEN /\ total_small_' = total_small_ + n
                /\ small_' = [small_ EXCEPT ![s[2]] = CountsAlloc(@, n)]
                /\ UNCHANGED <<total_slack_, large_>>
           ELSE /\ total_slack_' = total_slack_ + AllocSlack(n)
                /\ large_' = [large_ EXCEPT ![s[2]] = CountsAlloc(@, n)]
                /\ UNCHANGED <<total_small_, small_>>

RecordAlloc(p, n, dt, r) ==
  /\ ~aborted
  /\ IF log_on
       THEN clock' = TimeAdd(clock, dt) /\ LogAlloc(clock', p, n, r)
       ELSE NoLog
  /\ IF aborted'
       THEN UNCHANGED <<small_, large_, total_small_, total_slack_,
                        largest_seen_, spans>>
       ELSE AllocCounters(n) /\ spans' = spans (+) SetToBag({<<p, n>>})
  /\ NoteCall(kAllocEvent, p, n)
  /\ UNCHANGED <<fd_, query>>

(***************************************************************************)
(* PageAllocInfo::RecordFree                                               *)
(***************************************************************************)
FreeCounters(n) ==
  LET s == FreeSlot(n)
  IN  IF s[1] = "small"
        THEN /\ total_small_' = total_small_ - n
             /\ small_' = [small_ EXCEPT ![s[2]] = CountsFree(@, n)]
             /\ UNCHANGED <<total_slack_, large_, largest_seen_>>
        ELSE /\ total_slack_' = total_slack_ - FreeSlack(n)
             /\ large_' = [large_ EXCEPT ![s[2]] = CountsFree(@, n)]
             /\ UNCHANGED <<total_small_, small_, largest_seen_>>

RecordFree(p, n, dt, r) ==
  /\ ~aborted
  /\ IF log_on
       THEN clock' = TimeAdd(clock, dt) /\ LogFree(clock', p, n, r)
       ELSE NoLog
  /\ IF aborted'
       THEN UNCHANGED <<small_, large_, total_small_, total_slack_,
                        largest_seen_, spans>>
       ELSE FreeCounters(n) /\ spans' = spans (-) SetToBag({<<p, n>>})
  /\ NoteCall(kFreeEvent, p, n)
  /\ UNCHANGED <<fd_, query>>

(***************************************************************************)
(* PageAllocInfo::RecordRelease                                            *)
(***************************************************************************)
\* Variant that counts a release as a free.
RecordReleaseCounted(n, got, dt, r) ==
  /\ ~aborted
  /\ IF log_on
       THEN clock' = TimeAdd(clock, dt) /\ LogRelease(clock', n, r)
       ELSE NoLog
  /\ IF aborted'
       THEN UNCHANGED <<small_, large_, total_small_, total_slack_, largest_seen_>>
       ELSE FreeCounters(n)
  /\ NoteCall(kReleaseEvent, 0, n)
  /\ UNCHANGED <<fd_, spans, query>>

RecordRelease(n, got, dt, r) ==
  /\ ~aborted
  /\ IF log_on
       THEN clock' = TimeAdd(clock, dt) /\ LogRelease(clock', n, r)
       ELSE NoLog
  /\ NoteCall(kReleaseEvent, 0, n)
  /\ UNCHANGED <<fd_, small_, large_, total_small_, total_slack_,
                 largest_seen_, spans, query>>

(***************************************************************************)
(* PageAllocInfo::counts_for, as a caller sees it.                         *)
(***************************************************************************)
CountsFor(n) ==
  /\ ~aborted
  /\ query' = [n |-> n, slot |-> CountsForSlot(n), counts |-> counts_for(n)]
  /\ UNCHANGED <<fd_, small_, large_, total_small_, total_slack_,
                 largest_seen_, last_ms_, sink, writes, aborted, clock, spans,
                 calls>>

(***************************************************************************)
(* The allocator as caller: it frees only what it has allocated.           *)
(***************************************************************************)
Results == IF log_on THEN WriteResults(kEntryLen) ELSE {kEntryLen}
Steps == IF log_on THEN TimeSteps ELSE {TimeZero}

\* A page that is the start of a live span is not handed out again.
FreePageIDs == {p \in PageIDs : \A a \in BagToSet(spans) : a[1] # p}


(***************************************************************************)
(* Wide numbers: [hi, lo] stands for hi * 2^16 + lo.                       *)
(***************************************************************************)
Limb == Pow2(16)

Wide(hi, lo) == [hi |-> hi, lo |-> lo]

WideZero == Wide(0, 0)

WAdd(a, b) ==
  Wide(a.hi + b.hi + (a.lo + b.lo) \div Limb, (a.lo + b.lo) % Limb)

WLess(a, b) == a.hi < b.hi \/ (a.hi = b.hi /\ a.lo < b.lo)

\* Conversion to uint32_t.
ToU32(a) == Wide(a.hi % Limb, a.lo)

\* std::numeric_limits<uint32_t>::max()
U32Max == Wide(Limb - 1, Limb - 1)

(***************************************************************************)
(* PageAgeHistograms.  An age (a double, in seconds) is kept as its number *)
(* of clock ticks, to be divided by freq_.  total_age_, the sum of         *)
(* pages * age, is kept as the bag of its terms <<pages, age>>.            *)
(***************************************************************************)
kNumBuckets == 7
kNumSizes == 64
kLargeSize == kNumSizes

kSpanAgeHistBuckets == [i \in 0 .. kNumBuckets - 1 |->
                          <<0, 1, 30, 1 * 60, 30 * 60, 1 * 60 * 60, 8 * 60 * 60>>[i + 1]]

\* Variant comparing with <=: a threshold age stays in the bucket before.
RECURSIVE HistBucketScanInclusive(_, _)
HistBucketScanInclusive(age_secs, i) ==
  IF i >= kNumBuckets - 1 THEN kNumBuckets - 1
  ELSE IF age_secs <= kSpanAgeHistBuckets[i + 1] THEN i
  ELSE HistBucketScanInclusive(age_secs, i + 1)

RECURSIVE HistBucketScan(_, _)
HistBucketScan(age_secs, i) ==
  IF i >= kNumBuckets - 1 THEN kNumBuckets - 1
  ELSE IF age_secs < kSpanAgeHistBuckets[i + 1] THEN i
  ELSE HistBucketScan(age_secs, i + 1)

HistBucketIndex(age_exact) == HistBucketScan(age_exact \div freq_, 0)

SaturatingAdd(x, y) ==
  LET z == ToU32(WAdd(x, y))
  IN  IF WLess(z, x) THEN U32Max ELSE z

ZeroHistogram ==
  [buckets_ |-> [b \in 0 .. kNumBuckets - 1 |-> WideZero],
   total_pages_ |-> WideZero,
   total_age_ |-> EmptyBag]

ZeroPerSize ==
  [small |-> [i \in 0 .. kNumSizes - 2 |-> ZeroHistogram],
   large |-> ZeroHistogram,
   total |-> ZeroHistogram]

\* PageAgeHistograms::Histogram::Record
HistogramRecord(h, pages, age) ==
  LET bucket == HistBucketIndex(age)
  IN  [buckets_ |-> [h.buckets_ EXCEPT ![bucket] = SaturatingAdd(@, ToU32(pages))],
       total_pages_ |-> WAdd(h.total_pages_, pages),
       total_age_ |-> h.total_age_ (+) SetToBag({<<pages, age>>})]

\* PageAgeHistograms::PerSizeHistograms::Record
PerSizeRecord(set, pages, age) ==
  LET sized == IF WLess(pages, Wide(0, kLargeSize))
                 THEN [set EXCEPT !.small[pages.lo - 1] = HistogramRecord(@, pages, age)]
                 ELSE [set EXCEPT !.large = HistogramRecord(@, pages, age)]
  IN  [sized EXCEPT !.total = HistogramRecord(@, pages, age)]

\* std::max(0.0, (now_ - when) / freq_), in ticks
RangeAge(when) == Max(0, now_ - when)

\* PageAgeHistograms::PageAgeHistograms
InitAges ==
  /\ now_ = 1000
  /\ freq_ = Frequency
  /\ live_ = ZeroPerSize
  /\ returned_ = ZeroPerSize
  /\ ranges = <<>>

\* Variant with the two partitions exchanged.
RecordRangeSwapped(pages, released, when) ==
  /\ IF released
       THEN live_' = PerSizeRecord(live_, pages, RangeAge(when))
            /\ UNCHANGED returned_
       ELSE returned_' = PerSizeRecord(returned_, pages, RangeAge(when))
            /\ UNCHANGED live_
  /\ ranges' = Append(ranges, [pages |-> pages, released |-> released,
                               when |-> when])
  /\ UNCHANGED <<now_, freq_>>

\* PageAgeHistograms::RecordRange
RecordRange(pages, released, when) ==
  /\ IF released
       THEN returned_' = PerSizeRecord(returned_, pages, RangeAge(when))
            /\ UNCHANGED live_
       ELSE live_' = PerSizeRecord(live_, pages, RangeAge(when))
            /\ UNCHANGED returned_
  /\ ranges' = Append(ranges, [pages |-> pages, released |-> released,
                               when |-> when])
  /\ UNCHANGED <<now_, freq_>>

(***************************************************************************)
(* Spec: a PageAllocInfo and its caller, the page allocator, which frees   *)
(* only what it has allocated.                                             *)
(***************************************************************************)
Init == InitInfo /\ InitAges

Next ==
  /\ Len(calls) < MaxOps
  /\ UNCHANGED agesVars
  /\ \/ \E p \in FreePageIDs, n \in SampleLengths, dt \in Steps, r \in Results :
          RecordAlloc(p, n, dt, r)
     \/ \E a \in BagToSet(spans), dt \in Steps, r \in Results :
          RecordFree(a[1], a[2], dt, r)
     \/ \E a \in ReleaseArgs, dt \in Steps, r \in Results :
          RecordRelease(a[1], a[2], dt, r)

Spec == Init /\ [][Next]_vars

(***************************************************************************)
(* SpecClass: size-class resolution over a range of lengths.  One span is  *)
(* allocated, looked up with counts_for, and freed, without tracing.       *)
(***************************************************************************)
ClassProbes ==
  (1 .. MaxClassProbe)
    \cup UNION {{Pow2(k) - 1, Pow2(k), Pow2(k) + 1} : k \in 8 .. MaxProbeLog}

InitClass == InitInfo /\ InitAges /\ ~log_on

NextClass ==
  /\ UNCHANGED agesVars
  /\ \/ \E n \in ClassProbes :
          calls = <<>> /\ RecordAlloc(1, n, TimeZero, kEntryLen)
     \/ \E a \in BagToSet(spans) : RecordFree(a[1], a[2], TimeZero, kEntryLen)
     \/ \E n \in ClassProbes : query = NoQuery /\ CountsFor(n)

SpecClass == InitClass /\ [][NextClass]_vars

(***************************************************************************)
(* SpecAges: a PageAgeHistograms filled from the free-span inventory; the  *)
(* PageAllocInfo stays as constructed, without tracing.                    *)
(***************************************************************************)
\* kLargeSize - 1, kLargeSize, 2^32 - 1 and 2^32 pages.
RangePages == {Wide(0, kLargeSize - 1), Wide(0, kLargeSize),
               Wide(Limb - 1, Limb - 1), Wide(Limb, 0)}

\* Ages in ticks: each threshold, just below one of them, and a timestamp
\* later than the snapshot.
RangeAges ==
  {-1, 30 * freq_ - 1}
    \cup {kSpanAgeHistBuckets[b] * freq_ : b \in 0 .. kNumBuckets - 1}

NextAges ==
  /\ Len(ranges) < MaxRanges
  /\ UNCHANGED infoVars
  /\ \E pages \in RangePages, released \in BOOLEAN, a \in RangeAges :
       RecordRange(pages, released, now_ - a)

SpecAges == InitClass /\ [][NextAges]_vars

(***************************************************************************)
(* What the claims speak of, stated apart from the code.                   *)
(***************************************************************************)
\* The least i with n <= 2^i.
CeilLog2(n) == CHOOSE i \in 0 .. 30 : n <= Pow2(i) /\ (i = 0 \/ n > Pow2(i - 1))

ClassOf(n) ==
  IF n <= kMaxPages THEN <<"small", n - 1>> ELSE <<"large", CeilLog2(n)>>

\* Over a set S of spans <<p, n>>: their number and their pages in the bag.
RECURSIVE SumCopies(_)
SumCopies(S) ==
  IF S = {} THEN 0
  ELSE LET x == CHOOSE y \in S : TRUE
       IN  CopiesIn(x, spans) + SumCopies(S \ {x})

RECURSIVE SumPages(_)
SumPages(S) ==
  IF S = {} THEN 0
  ELSE LET x == CHOOSE y \in S : TRUE
       IN  CopiesIn(x, spans) * x[2] + SumPages(S \ {x})

LiveIn(s) == {a \in BagToSet(spans) : ClassOf(a[2]) = s}

LivePages(s) == SumPages(LiveIn(s))

LiveCount(s) == SumCopies(LiveIn(s))

\* The i-th record of the sink, decoded.
TraceRecord(i) ==
  LET at == kHeaderLen + kEntryLen * (i - 1)
  IN  [id |-> FromLittleEndian(SubSeq(sink, at + 1, at + 8)),
       kib |-> FromLittleEndian(SubSeq(sink, at + 9, at + 12)),
       what |-> sink[at + 13],
       delta_ms |-> FromLittleEndian(SubSeq(sink, at + 14, at + 16))]

IsPrefix(a, b) == Len(a) <= Len(b) /\ SubSeq(b, 1, Len(a)) = a

(***************************************************************************)
(* C1.  With every free matching a live allocation, in every size class    *)
(* alloc_size - free_size is the sum of the sizes of the live allocations  *)
(* of the class and nalloc - nfree is their number, for the slot           *)
(* counts_for returns as for every slot; neither is negative.              *)
(***************************************************************************)
C1_LiveAccounting ==
  /\ LET liveClasses == {ClassOf(a[2]) : a \in BagToSet(spans)}
     IN  \A s \in AllSlots :
           LET c == SlotCounts(s)
           IN  /\ c.alloc_size >= c.free_size
               /\ c.nalloc >= c.nfree
               /\ IF s \in liveClasses
                    THEN /\ c.alloc_size - c.free_size = LivePages(s)
                         /\ c.nalloc - c.nfree = LiveCount(s)
                    ELSE /\ c.alloc_size - c.free_size = 0
                         /\ c.nalloc - c.nfree = 0
  /\ \A n \in SampleLengths :
       /\ counts_for(n).alloc_size - counts_for(n).free_size = LivePages(ClassOf(n))
       /\ counts_for(n).nalloc - counts_for(n).nfree = LiveCount(ClassOf(n))

\* A large span is live after a span of another class was freed.
C1_Witness ==
  /\ \E a \in BagToSet(spans) :
       a[2] > kMaxPages /\ counts_for(a[2]).alloc_size - counts_for(a[2]).free_size = a[2]
  /\ \E n \in SampleLengths : counts_for(n).nfree = 1 /\ LiveCount(ClassOf(n)) = 0

(***************************************************************************)
(* C2.  With tracing on, after k completed Record* calls the sink is the   *)
(* 8-byte header of value 1 followed by k 16-byte records, the i-th with   *)
(* the event code of the i-th call, and written bytes never change; with   *)
(* tracing off the sink stays empty.                                       *)
(***************************************************************************)
C2_SinkShape ==
  /\ log_on /\ ~aborted =>
       /\ Len(sink) = kHeaderLen + kEntryLen * Len(calls)
       /\ FromLittleEndian(SubSeq(sink, 1, kHeaderLen)) = 1
       /\ \A i \in 1 .. Len(calls) : TraceRecord(i).what = calls[i].what
  /\ ~log_on => sink = <<>>

C2_TraceStream == [](C2_SinkShape) /\ [][IsPrefix(sink, sink')]_vars

\* An alloc, a free and a release have been traced, in that order.
C2_Witness ==
  /\ log_on /\ ~aborted /\ Len(calls) = 3
  /\ calls[1].what = kAllocEvent /\ calls[2].what = kFreeEvent
  /\ calls[3].what = kReleaseEvent
  /\ Len(sink) = 56

(***************************************************************************)
(* C3.  Size-class resolution is the same in RecordAlloc, RecordFree and   *)
(* counts_for: small slot n - 1 for n <= kMaxPages, else large slot i with *)
(* 2^(i-1) < n <= 2^i.  After RecordAlloc(p, n), and after the matching    *)
(* RecordFree, exactly that slot holds the counts, counts_for(n) returns   *)
(* it, and every other slot is untouched.                                  *)
(***************************************************************************)
C3_SlotResolution ==
  /\ query # NoQuery => query.slot = ClassOf(query.n)
  /\ calls # <<>> =>
       LET n == calls[1].n
           after == [nalloc |-> 1, nfree |-> Len(calls) - 1,
                     alloc_size |-> n, free_size |-> (Len(calls) - 1) * n]
       IN  /\ SlotCounts(ClassOf(n)) = after
           /\ counts_for(n) = after
           /\ \A s \in AllSlots \ {ClassOf(n)} : SlotCounts(s) = ZeroCounts
           /\ ClassOf(n)[1] = "large" =>
                Pow2(ClassOf(n)[2] - 1) < n /\ n <= Pow2(ClassOf(n)[2])

\* A span of 2^9 + 1 pages was allocated and freed, and counts_for asked
\* about 2^9 pages: slots 10 and 9 of large_.
C3_Witness ==
  /\ Len(calls) = 2 /\ calls[1].n = 513 /\ large_[10].nfree = 1
  /\ query.n = 512 /\ query.slot = <<"large", 9>>

(***************************************************************************)
(* C4.  As claimed: the slot index is monotonic non-decreasing in n over   *)
(* all lengths, pairs straddling kMaxPages included.  Compared are the     *)
(* slot RecordAlloc updated for one length and the slot counts_for gave    *)
(* for another.                                                            *)
(***************************************************************************)
UsedSlot == CHOOSE s \in AllSlots : SlotCounts(s).nalloc > 0

C4_MonotoneEverywhere ==
  calls # <<>> /\ query # NoQuery =>
    /\ calls[1].n <= query.n => UsedSlot[2] <= query.slot[2]
    /\ query.n <= calls[1].n => query.slot[2] <= UsedSlot[2]

(***************************************************************************)
(* C4, amended.  The slot index is monotonic non-decreasing in n among the *)
(* lengths n <= kMaxPages and among the lengths n > kMaxPages.             *)
(***************************************************************************)
C4_MonotoneWithinRegime ==
  calls # <<>> /\ query # NoQuery
    /\ (calls[1].n <= kMaxPages) = (query.n <= kMaxPages) =>
      /\ calls[1].n <= query.n => UsedSlot[2] <= query.slot[2]
      /\ query.n <= calls[1].n => query.slot[2] <= UsedSlot[2]

\* Two large lengths either side of a power of two were compared.
C4_Witness ==
  /\ calls # <<>> /\ calls[1].n = 256 /\ query.n = 257
  /\ UsedSlot[2] = 8 /\ query.slot[2] = 9

(***************************************************************************)
(* C5.  Timestamps are rounded down to milliseconds before differencing:   *)
(* while the gaps stay below 2^24 ms, each record's delta_ms is            *)
(* floor(t / 10^6) - floor(t_prev / 10^6), the first against 0, and the    *)
(* deltas written so far add up to floor(t_last / 10^6).                   *)
(***************************************************************************)
FloorMs(t) == t.ms

GapMs(i) == FloorMs(calls[i].t) - (IF i = 1 THEN 0 ELSE FloorMs(calls[i - 1].t))

RECURSIVE SumDeltas(_)
SumDeltas(k) == IF k = 0 THEN 0 ELSE TraceRecord(k).delta_ms + SumDeltas(k - 1)

C5_RoundThenDifference ==
  log_on /\ ~aborted =>
    /\ \A i \in 1 .. Len(calls) :
         GapMs(i) < Pow2(24) => TraceRecord(i).delta_ms = GapMs(i)
    /\ (calls # <<>> /\ \A i \in 1 .. Len(calls) : GapMs(i) < Pow2(24)) =>
         SumDeltas(Len(calls)) = FloorMs(calls[Len(calls)].t)

\* Events at 0.7 ms and 50 ms: deltas 0 and 50.
C5_Witness ==
  /\ log_on /\ ~aborted /\ Len(calls) = 2
  /\ calls[1].t = [ms |-> 0, ns |-> 700000] /\ calls[2].t = [ms |-> 50, ns |-> 0]
  /\ TraceRecord(1).delta_ms = 0 /\ TraceRecord(2).delta_ms = 50

(***************************************************************************)
(* C6.  A gap above 2^24 - 1 ms is stored as exactly 2^24 - 1, so every    *)
(* delta_ms is below 2^24 and the event code keeps the low 8 bits; the     *)
(* cursor is the true millisecond time of the last event, so the next      *)
(* delta is taken from the true time.                                      *)
(***************************************************************************)
C6_DeltaClamp ==
  log_on /\ ~aborted =>
    /\ \A i \in 1 .. Len(calls) :
         /\ GapMs(i) > Pow2(24) - 1 => TraceRecord(i).delta_ms = Pow2(24) - 1
         /\ GapMs(i) <= Pow2(24) - 1 => TraceRecord(i).delta_ms = GapMs(i)
         /\ TraceRecord(i).delta_ms < Pow2(24)
         /\ TraceRecord(i).what = calls[i].what
    /\ calls # <<>> => last_ms_ = FloorMs(calls[Len(calls)].t)

\* A clamped event is followed by an event 49 ms later.
C6_Witness ==
  /\ log_on /\ ~aborted /\ Len(calls) >= 2
  /\ \E i \in 1 .. Len(calls) - 1 :
       /\ GapMs(i) = 16777221 /\ TraceRecord(i).delta_ms = 16777215
       /\ GapMs(i + 1) = 49 /\ TraceRecord(i + 1).delta_ms = 49

(***************************************************************************)
(* C7.  total_slack_ is the sum of roundUp(n, kPagesPerHugePage) - n over  *)
(* the live spans with n > kMaxPages: a large RecordAlloc adds exactly     *)
(* that amount, a small one nothing, and the matching RecordFree takes the *)
(* same amount away.                                                       *)
(***************************************************************************)
SlackOf(n) ==
  IF n > kMaxPages
    THEN ((n + kPagesPerHugePage - 1) \div kPagesPerHugePage) * kPagesPerHugePage - n
    ELSE 0

RECURSIVE SumSlack(_)
SumSlack(S) ==
  IF S = {} THEN 0
  ELSE LET x == CHOOSE y \in S : TRUE
       IN  CopiesIn(x, spans) * SlackOf(x[2]) + SumSlack(S \ {x})

C7_Slack == total_slack_ = SumSlack(BagToSet(spans))

\* 257 pages are live (slack 255) after 129 pages
\* (slack 127) were allocated and freed.
C7_Witness ==
  /\ \E a \in BagToSet(spans) : a[2] = 257
  /\ large_[8].nfree = 1
  /\ total_slack_ = 255

(***************************************************************************)
(* C10.  RecordRelease changes no allocation statistic; with tracing on it *)
(* appends one release record, with tracing off it writes nothing.         *)
(***************************************************************************)
IsReleaseStep ==
  Len(calls') = Len(calls) + 1 /\ calls'[Len(calls')].what = kReleaseEvent

C10_ReleaseFrame ==
  [][IsReleaseStep =>
       /\ UNCHANGED <<small_, large_, total_small_, total_slack_, largest_seen_>>
       /\ log_on /\ ~aborted' =>
            /\ Len(sink') = Len(sink) + kEntryLen
            /\ SubSeq(sink', 1, Len(sink)) = sink
            /\ sink'[Len(sink) + 13] = kReleaseEvent
       /\ ~log_on => sink' = sink]_vars

\* A release was recorded while a span was live.
C10_Witness ==
  /\ calls # <<>> /\ calls[Len(calls)].what = kReleaseEvent
  /\ spans # EmptyBag /\ ~aborted

(***************************************************************************)
(* The histograms, as the claims speak of them.                            *)
(***************************************************************************)
IsRangeStep == Len(ranges') = Len(ranges) + 1

LastRange == ranges'[Len(ranges')]

\* The age of a range in ticks, 0 for a timestamp later than the snapshot.
AgeOf(c) == IF now_ - c.when < 0 THEN 0 ELSE now_ - c.when

\* The last threshold that is <= the age in whole seconds.
BucketOf(c) ==
  CHOOSE b \in 0 .. kNumBuckets - 1 :
    /\ kSpanAgeHistBuckets[b] <= AgeOf(c) \div freq_
    /\ b < kNumBuckets - 1 => AgeOf(c) \div freq_ < kSpanAgeHistBuckets[b + 1]

WMin(a, b) == IF WLess(a, b) THEN a ELSE b

\* Histogram g has the counts of h in every bucket but b.
BucketsKept(h, g, b) ==
  g = h \/ \A j \in (0 .. kNumBuckets - 1) \ {b} : g.buckets_[j] = h.buckets_[j]

\* The same of every histogram of a partition, before and after.
OtherBucketsKept(set, next, b) ==
  \/ next = set
  \/ /\ \A i \in 0 .. kNumSizes - 2 : BucketsKept(set.small[i], next.small[i], b)
     /\ BucketsKept(set.large, next.large, b)
     /\ BucketsKept(set.total, next.total, b)

(***************************************************************************)
(* C8.  As claimed: after Histogram::Record with page count p the bucket   *)
(* holds min(x + p, MAX), x being its count before and MAX = 2^32 - 1; it  *)
(* never wraps and never decreases.  Stated of the grand total of the      *)
(* partition a RecordRange call goes to.                                   *)
(***************************************************************************)
C8_SaturatingRecord ==
  [][IsRangeStep =>
       LET c == LastRange
           b == BucketOf(c)
           x == IF c.released THEN returned_.total.buckets_[b]
                              ELSE live_.total.buckets_[b]
           after == IF c.released THEN returned_'.total.buckets_[b]
                                  ELSE live_'.total.buckets_[b]
       IN  /\ after = WMin(WAdd(x, c.pages), U32Max)
           /\ ~WLess(after, x)]_vars

(***************************************************************************)
(* C9.  Histogram::Record adds the pages to one bucket only, the last one  *)
(* whose min_sec is <= the age in whole seconds, an age equal to a         *)
(* threshold going to the bucket of that threshold; every other bucket of  *)
(* every histogram is unchanged; a timestamp later than the snapshot       *)
(* counts as age 0, in the first bucket.                                   *)
(***************************************************************************)
C9_BucketSelection ==
  [][IsRangeStep =>
       LET c == LastRange
           b == BucketOf(c)
           before == IF c.released THEN returned_.total ELSE live_.total
           after == IF c.released THEN returned_'.total ELSE live_'.total
       IN  /\ OtherBucketsKept(live_, live_', b)
           /\ OtherBucketsKept(returned_, returned_', b)
           /\ ~WLess(after.buckets_[b], before.buckets_[b])
           /\ (ToU32(c.pages) # WideZero /\ before.buckets_[b] # U32Max) =>
                WLess(before.buckets_[b], after.buckets_[b])
           /\ BagIn(<<c.pages, AgeOf(c)>>, after.total_age_)
           /\ now_ - c.when < 0 => b = 0]_vars

\* One range exactly 30 s old and one stamped after the snapshot: the
\* third and the first bucket of the live total.
C9_Witness ==
  /\ Len(ranges) = 2
  /\ ranges[1] = [pages |-> Wide(0, kLargeSize - 1), released |-> FALSE, when |-> now_ - 30 * freq_]
  /\ ranges[2] = [pages |-> Wide(0, kLargeSize), released |-> FALSE, when |-> now_ + 1]
  /\ live_.total.buckets_ =
       [j \in 0 .. kNumBuckets - 1 |->
          IF j = 2 THEN Wide(0, kLargeSize - 1) ELSE IF j = 0 THEN Wide(0, kLargeSize) ELSE WideZero]

(***************************************************************************)
(* C11.  A write that returns anything but the full length (8 for the      *)
(* header, 16 for an event) aborts the process: the failed write is the    *)
(* last one, nothing is appended or counted afterwards, and the            *)
(* RecordAlloc or RecordFree whose write failed changes no counter.        *)
(***************************************************************************)
FullLength(i) == IF i = 1 THEN kHeaderLen ELSE kEntryLen

CountersKept ==
  UNCHANGED <<small_, large_, total_small_, total_slack_, largest_seen_>>

C11_FatalShape ==
  /\ aborted <=> (writes # <<>> /\ writes[Len(writes)] # FullLength(Len(writes)))
  /\ \A i \in 1 .. Len(writes) - 1 : writes[i] = FullLength(i)

C11_FatalWrite ==
  /\ [](C11_FatalShape)
  /\ [][/\ aborted => sink' = sink /\ writes' = writes /\ CountersKept
        /\ aborted' => CountersKept]_vars

\* With a span counted, the write of a later RecordAlloc came back short.
C11_Witness ==
  /\ aborted /\ Len(calls) = 2 /\ calls[2].what = kAllocEvent
  /\ writes = <<kHeaderLen, kEntryLen, kEntryLen - 3>>
  /\ Len(sink) = kHeaderLen + 2 * kEntryLen - 3
  /\ largest_seen_ = calls[1].n /\ calls[2].n > calls[1].n

(***************************************************************************)
(* C12.  Each RecordRange call updates exactly two histograms, both in the *)
(* partition its released flag selects: the histogram of its size when     *)
(* pages < kLargeSize, else the large one, and the grand total; the other  *)
(* partition is unchanged.  So in each partition the total_pages of the    *)
(* grand total is the sum of total_pages over the sized histograms and the *)
(* large one, and the sum of the pages of the calls routed there.          *)
(***************************************************************************)
\* The sums of the hi and of the lo parts of total_pages_ over small[0..k].
RECURSIVE SumSmallHi(_, _)
SumSmallHi(set, k) ==
  IF k < 0 THEN 0 ELSE set.small[k].total_pages_.hi + SumSmallHi(set, k - 1)

RECURSIVE SumSmallLo(_, _)
SumSmallLo(set, k) ==
  IF k < 0 THEN 0 ELSE set.small[k].total_pages_.lo + SumSmallLo(set, k - 1)

SizedPages(set) ==
  LET hi == SumSmallHi(set, kNumSizes - 2) + set.large.total_pages_.hi
      lo == SumSmallLo(set, kNumSizes - 2) + set.large.total_pages_.lo
  IN  Wide(hi + lo \div Limb, lo % Limb)

RECURSIVE RoutedPages(_, _)
RoutedPages(released, k) ==
  IF k = 0 THEN WideZero
  ELSE IF ranges[k].released = released
         THEN WAdd(ranges[k].pages, RoutedPages(released, k - 1))
         ELSE RoutedPages(released, k - 1)

\* The histograms of partition `next` that differ from those of `set`.
ChangedSmall(set, next) ==
  {i \in 0 .. kNumSizes - 2 : next.small[i] # set.small[i]}

\* Partition `set` became `next` by a record of `pages` pages.
RoutedTo(set, next, pages) ==
  /\ next.total # set.total
  /\ IF WLess(pages, Wide(0, kLargeSize))
       THEN ChangedSmall(set, next) = {pages.lo - 1} /\ next.large = set.large
       ELSE ChangedSmall(set, next) = {} /\ next.large # set.large

C12_Totals ==
  /\ live_.total.total_pages_ = SizedPages(live_)
  /\ live_.total.total_pages_ = RoutedPages(FALSE, Len(ranges))
  /\ returned_.total.total_pages_ = SizedPages(returned_)
  /\ returned_.total.total_pages_ = RoutedPages(TRUE, Len(ranges))

C12_Routing ==
  /\ [](C12_Totals)
  /\ [][IsRangeStep =>
          IF LastRange.released
            THEN RoutedTo(returned_, returned_', LastRange.pages) /\ live_' = live_
            ELSE RoutedTo(live_, live_', LastRange.pages) /\ returned_' = returned_]_vars

\* kLargeSize - 1 pages went to the live partition and kLargeSize pages to
\* the released one.
C12_Witness ==
  /\ Len(ranges) = 2
  /\ live_.small[kLargeSize - 2].total_pages_ = Wide(0, kLargeSize - 1)
  /\ live_.total.total_pages_ = Wide(0, kLargeSize - 1)
  /\ returned_.large.total_pages_ = Wide(0, kLargeSize)
  /\ returned_.total.total_pages_ = Wide(0, kLargeSize)

=============================================================================
